---- MODULE Spec2Model ----
(***************************************************************************)
(* Model of the forward proxy in src/src/main.cpp: the ProxyServer          *)
(* registry (_connections) and the ProxyConnection sessions it owns, each   *)
(* with a downstream and an upstream QTcpSocket, driven by the events the   *)
(* Qt event loop delivers on its single thread.                             *)
(*                                                                         *)
(* One action is one handler run to completion, nested direct calls         *)
(* (terminate -> terminated(id) -> onConnectionTerminate) included.         *)
(*                                                                         *)
(* Abstractions: descriptors are small, so static_cast<int>(handle) keeps   *)
(* the value; the reply is one token (its HTTP version is not tracked); a   *)
(* non-blocking connect never completes inside connectToHost; lookups may   *)
(* complete in any order; MaxLookups and MaxLog bound the lookups started   *)
(* and the bytes relayed by the sessions that exist, taken together.        *)
(***************************************************************************)
EXTENDS Integers, Sequences, FiniteSets, TLC

\* ------------------------------------------------------------------ bounds
MaxSessions == 2
MaxHandles == 2
MaxLookups == 2
MaxLog == 2

Slots == 1..MaxSessions      \* ProxyConnection objects that can exist at once
Handles == 1..MaxHandles     \* socket descriptors the operating system hands out
None == 0                    \* a null QSharedPointer / no session

\* --------------------------------------------------------------- constants
kConnect == "CONNECT"
kGet == "GET"
kPut == "PUT"
kPost == "POST"
kHead == "HEAD"
kDelete == "DELETE"

UnconnectedState == "UnconnectedState"
ConnectingState == "ConnectingState"
ConnectedState == "ConnectedState"

ParsingCompleted == "ParsingCompleted"
ParsingIncomplete == "ParsingIncomplete"
ParsingError == "ParsingError"

\* The synthetic "HTTP/x.y 200 Connection established" reply, as one token of
\* the downstream output; payload bytes are 1, 2, ...
Response == 0

\* ------------------------------------------------------------------ inputs
\* Request targets, as sequences of characters.
HostPort == <<"h", ":", "8">>
PathOnly == <<"/", "p">>
SchemeHostPort == <<"s", ":", "/", "/", "h", ":", "8">>

\* What one readyRead of the downstream socket delivers: the bytes readAll()
\* returns, and what the (external) httpparser makes of them.
Req(result, method, uri) ==
    [bytes |-> <<1>>, result |-> result, method |-> method, uri |-> uri]

Raw(bytes, result) ==
    [bytes |-> bytes, result |-> result, method |-> "", uri |-> <<>>]

Data ==
    { Req(ParsingCompleted, kConnect, HostPort),
      Req(ParsingCompleted, kGet, HostPort),
      Req(ParsingCompleted, "OPTIONS", HostPort),
      Req(ParsingCompleted, kGet, PathOnly),
      Req(ParsingCompleted, kGet, SchemeHostPort),
      Raw(<<2>>, ParsingError),
      Raw(<<1, 2>>, ParsingIncomplete) }

\* No downstream data has been read yet.
NoData == Raw(<<>>, "")

\* What the upstream peer sends in one readyRead.
Chunks == { <<1>>, <<2>>, <<2, 1>> }

\* Address lists a host lookup can return.
AddressLists == { <<>>, <<1, 2>> }

\* ------------------------------------------------------------------- state
VARIABLES connections, conn

vars == <<connections, conn>>

\* A ProxyConnection that does not exist (never created, or deleted).
\* Program state: id, blocked (QObject::signalsBlocked), the two sockets'
\* state and signalsBlocked, the lookups in flight with the request and port
\* their functor captured, the functors connected to the upstream socket's
\* connected(), each with the method it captured.
\* History: first (the first data read from downstream), attempts (the
\* connections connectToHost started), toDown/toUp (bytes written to each
\* socket), fromDown/fromUp (bytes read while relaying), and how often
\* terminate() ran, terminated(id) reached the acceptor, and the registry
\* dropped the session; steps (the statements of terminate() in the order
\* they ran).
NoConn ==
    [ live |-> FALSE, id |-> None, blocked |-> FALSE,
      down |-> UnconnectedState, downBlocked |-> FALSE,
      up |-> UnconnectedState, upBlocked |-> FALSE,
      first |-> NoData, lookups |-> <<>>, connected |-> <<>>, attempts |-> <<>>,
      toDown |-> <<>>, toUp |-> <<>>, fromDown |-> <<>>, fromUp |-> <<>>,
      steps |-> <<>>, terminateCalls |-> 0, notified |-> 0, removed |-> 0 ]

\* ProxyConnection::ProxyConnection: the adopted downstream socket, a fresh
\* unconnected upstream socket, signals connected and not blocked.
NewConn(id) ==
    [ NoConn EXCEPT !.live = TRUE, !.id = id, !.down = ConnectedState ]

\* The machine state the handlers transform.
Machine == [connections |-> connections, conn |-> conn]

Init ==
    /\ connections = [h \in Handles |-> None]
    /\ conn = [s \in Slots |-> NoConn]

\* ------------------------------------------------- the request classifier
IsSupported(method) ==
    \/ method = kConnect
    \/ method = kGet
    \/ method = kPut
    \/ method = kPost
    \/ method = kHead
    \/ method = kDelete

Digits == {"0", "1", "2", "3", "4", "5", "6", "7", "8", "9"}

\* The positions of ':' at which ^(.*):(\d+)$ matches uri: everything after
\* it is one or more digits, nothing before it is a line break.
MatchAt(uri) ==
    { i \in 1..Len(uri) :
        /\ uri[i] = ":"
        /\ i < Len(uri)
        /\ \A j \in (i + 1)..Len(uri) : uri[j] \in Digits
        /\ \A j \in 1..(i - 1) : uri[j] # "\n" }

hasMatch(uri) == MatchAt(uri) # {}

\* (.*) is greedy: the match is at the last such ':'.
Colon(uri) == CHOOSE i \in MatchAt(uri) : \A j \in MatchAt(uri) : j <= i

captured1(uri) == SubSeq(uri, 1, Colon(uri) - 1)

captured2(uri) == SubSeq(uri, Colon(uri) + 1, Len(uri))

DigitValue(c) ==
    CASE c = "0" -> 0 [] c = "1" -> 1 [] c = "2" -> 2 [] c = "3" -> 3
      [] c = "4" -> 4 [] c = "5" -> 5 [] c = "6" -> 6 [] c = "7" -> 7
      [] c = "8" -> 8 [] c = "9" -> 9

RECURSIVE Decimal(_)
Decimal(ds) ==
    IF ds = <<>> THEN 0
    ELSE 10 * Decimal(SubSeq(ds, 1, Len(ds) - 1)) + DigitValue(ds[Len(ds)])

\* QString::toInt: the value, or 0 when it does not fit an int.
toInt(ds) == IF Decimal(ds) > 2147483647 THEN 0 ELSE Decimal(ds)

\* ------------------------------------------------------------ the acceptor
\* Sessions the registry still holds a reference to.
Referenced(m, s) == \E h \in Handles : m.connections[h] = s

\* onConnectionTerminate with the removal left out.
onConnectionTerminate_KeepsEntry(m, id) ==
    LET connection == m.connections[id] IN
    IF connection # None
    THEN [m EXCEPT !.conn[connection].blocked = TRUE]
    ELSE m

\* onConnectionTerminate with blockSignals(true) left out.
onConnectionTerminate_NoBlock(m, id) ==
    LET connection == m.connections[id] IN
    IF connection # None
    THEN [ connections |-> [m.connections EXCEPT ![id] = None],
           conn |-> [m.conn EXCEPT ![connection].removed = @ + 1] ]
    ELSE m

\* onConnectionTerminate with clear() where remove(id) is meant.
onConnectionTerminate_Clears(m, id) ==
    LET connection == m.connections[id] IN
    IF connection # None
    THEN [ connections |-> [h \in Handles |-> None],
           conn |-> [m.conn EXCEPT ![connection].blocked = TRUE,
                                   ![connection].removed = @ + 1] ]
    ELSE m

\* ProxyServer::onConnectionTerminate(id)
onConnectionTerminate(m, id) ==
    LET connection == m.connections[id] IN
    IF connection # None
    THEN [ connections |-> [m.connections EXCEPT ![id] = None],
           conn |-> [m.conn EXCEPT ![connection].blocked = TRUE,
                                   ![connection].removed = @ + 1] ]
    ELSE m

\* Q_EMIT terminated(_id): delivered to the slot connected in
\* incomingConnection unless the session's signals are blocked.
emitTerminated(m, s) ==
    IF m.conn[s].blocked
    THEN m
    ELSE onConnectionTerminate([m EXCEPT !.conn[s].notified = @ + 1], m.conn[s].id)

RECURSIVE terminate(_, _)

\* A statement of terminate() starts to run.
ran(m, s, statement) == [m EXCEPT !.conn[s].steps = Append(@, statement)]

\* _downStream->blockSignals(true)
blockDownStream(m, s) ==
    ran([m EXCEPT !.conn[s].downBlocked = TRUE], s, "downStream.blockSignals")

\* _upStream->blockSignals(true)
blockUpStream(m, s) ==
    ran([m EXCEPT !.conn[s].upBlocked = TRUE], s, "upStream.blockSignals")

\* _downStream->disconnectFromHost(); _downStream->close(): a connected
\* socket emits disconnected(), which is connected to terminate(), unless
\* its signals are blocked.
closeDownStream(m, s) ==
    LET closed == ran([m EXCEPT !.conn[s].down = UnconnectedState], s,
                      "downStream.close")
    IN IF m.conn[s].down = ConnectedState /\ ~m.conn[s].downBlocked
       THEN terminate(closed, s)
       ELSE closed

\* _upStream->disconnectFromHost(); _upStream->close()
closeUpStream(m, s) ==
    LET closed == ran([m EXCEPT !.conn[s].up = UnconnectedState], s,
                      "upStream.close")
    IN IF m.conn[s].up = ConnectedState /\ ~m.conn[s].upBlocked
       THEN terminate(closed, s)
       ELSE closed

\* terminate() entered.
entered(m, s) == [m EXCEPT !.conn[s].terminateCalls = @ + 1]

\* terminate() with the upstream socket left open.
terminate_KeepsUpStream(m, s) ==
    emitTerminated(
        ran(closeDownStream(blockUpStream(blockDownStream(entered(m, s), s), s), s),
            s, "terminated"), s)

\* terminate() with the downstream socket left alone.
terminate_LeavesDownStream(m, s) ==
    emitTerminated(
        ran(closeUpStream(blockUpStream(entered(m, s), s), s), s, "terminated"), s)

\* terminate() closing the sockets before it blocks their signals.
terminate_BlocksLast(m, s) ==
    emitTerminated(
        ran(blockUpStream(blockDownStream(
                closeUpStream(closeDownStream(entered(m, s), s), s), s), s),
            s, "terminated"), s)

\* ProxyConnection::terminate()
terminate(m, s) ==
    emitTerminated(
        ran(closeUpStream(closeDownStream(
                blockUpStream(blockDownStream(entered(m, s), s), s), s), s),
            s, "terminated"), s)

\* ------------------------------------------------------------- the sockets
\* QIODevice::write on a socket: accepted only while the socket is open.
write(state, out, bytes) == IF state = ConnectedState THEN out \o bytes ELSE out

\* A read of one byte where readAll() is meant.
readAll_OneByte(available) == SubSeq(available, 1, 1)

\* QByteArray QIODevice::readAll(): everything that is available.
readAll(available) == available

\* QAbstractSocket::connectToHost: refused (OperationError, which the
\* errorOccurred functor logs) while a connection is being made or is
\* established.
connectToHost(c, address, port) ==
    IF c.up \in {ConnectingState, ConnectedState}
    THEN c
    ELSE [c EXCEPT !.up = ConnectingState,
                   !.attempts = Append(@, [address |-> address, port |-> port])]

\* ------------------------------------------------------------- the session
\* The functor handed to QHostInfo::lookupHost, called with the result.
lookedUp(m, s, request, port, addresses) ==
    IF addresses # <<>>
    THEN LET c == connectToHost(m.conn[s], Head(addresses), port)
         IN [m EXCEPT !.conn[s] = [c EXCEPT !.connected = Append(@, request.method)]]
    ELSE terminate(m, s)

\* QHostInfo::lookupHost(host, this, functor): the lookup is in flight.
lookupHost(m, s, host, request, port) ==
    [m EXCEPT !.conn[s].lookups =
        Append(@, [host |-> host, method |-> request.method, port |-> port])]

\* downStreamReadyRead with the terminate() of the "Invaid URI" branch lost.
downStreamReadyRead_NoMatchIgnored(m, s, available) ==
    LET data == readAll(available.bytes) IN
    IF m.conn[s].up # ConnectedState
    THEN IF available.result = ParsingCompleted
         THEN IF IsSupported(available.method) /\ hasMatch(available.uri)
              THEN lookupHost(m, s, captured1(available.uri), available,
                              toInt(captured2(available.uri)))
              ELSE m
         ELSE terminate(m, s)
    ELSE [m EXCEPT !.conn[s].toUp = write(m.conn[s].up, @, data)]

\* ProxyConnection::downStreamReadyRead()
downStreamReadyRead(m, s, available) ==
    LET data == readAll(available.bytes) IN
    IF m.conn[s].up # ConnectedState
    THEN IF available.result = ParsingCompleted
         THEN IF IsSupported(available.method)
              THEN IF hasMatch(available.uri)
                   THEN lookupHost(m, s, captured1(available.uri), available,
                                   toInt(captured2(available.uri)))
                   ELSE terminate(m, s)
              ELSE m
         ELSE terminate(m, s)
    ELSE [m EXCEPT !.conn[s].toUp = write(m.conn[s].up, @, data)]

\* ProxyConnection::upStreamReadyRead()
upStreamReadyRead(m, s, available) ==
    [m EXCEPT !.conn[s].toDown = write(m.conn[s].down, @, readAll(available))]

\* A connected functor that also forwards the classified request upstream.
onConnected_ForwardsRequest(c, method) ==
    IF method = kConnect
    THEN [c EXCEPT !.toDown = write(c.down, @, <<Response>>)]
    ELSE [c EXCEPT !.toUp = write(c.up, @, c.first.bytes)]

\* One functor connected to QTcpSocket::connected, for the request it captured.
onConnected(c, method) ==
    IF method = kConnect
    THEN [c EXCEPT !.toDown = write(c.down, @, <<Response>>)]
    ELSE c

\* The upstream socket emits connected(): every connected functor runs, in
\* connection order, unless the socket's signals are blocked.
RECURSIVE emitConnected(_, _)
emitConnected(c, slots) ==
    IF c.upBlocked \/ slots = <<>>
    THEN c
    ELSE emitConnected(onConnected(c, Head(slots)), Tail(slots))

\* incomingConnection() that registers a session whether or not the socket
\* adopted the descriptor.
incomingConnection_IgnoresAdoption(m, slot, handle, adopted) ==
    LET id == handle IN
    [ connections |-> [m.connections EXCEPT ![id] = slot],
      conn |-> [m.conn EXCEPT ![slot] = NewConn(id)] ]

\* ProxyServer::incomingConnection(handle), the new session placed at slot
incomingConnection(m, slot, handle, adopted) ==
    LET id == handle IN
    IF adopted
    THEN [ connections |-> [m.connections EXCEPT ![id] = slot],
           conn |-> [m.conn EXCEPT ![slot] = NewConn(id)] ]
    ELSE m

\* ----------------------------------------------------------------- actions
Apply(m) ==
    /\ connections' = m.connections
    /\ conn' = m.conn

\* A descriptor the operating system can hand out: no open socket holds it.
FreeHandle(h) ==
    \A s \in Slots : ~(conn[s].live /\ conn[s].down = ConnectedState /\ conn[s].id = h)

FreeSlots == { s \in Slots : ~conn[s].live }

\* Lookups started and bytes relayed so far by the sessions 1..n.
RECURSIVE Lookups(_)
Lookups(n) ==
    IF n = 0 THEN 0
    ELSE Lookups(n - 1) + Len(conn[n].lookups) + Len(conn[n].connected)

RECURSIVE Relayed(_)
Relayed(n) ==
    IF n = 0 THEN 0
    ELSE Relayed(n - 1) + Len(conn[n].fromDown) + Len(conn[n].fromUp)

\* The listening socket accepts a connection.
IncomingConnection(handle, adopted) ==
    /\ FreeHandle(handle)
    /\ FreeSlots # {}
    /\ LET slot == CHOOSE s \in FreeSlots : \A r \in FreeSlots : s <= r
       IN Apply(incomingConnection(Machine, slot, handle, adopted))

\* A connect attempt of a session ends while the session is not scheduled
\* for deletion: its deleteLater() is posted when the registry drops it and
\* is delivered before the next socket notification.
Delivers(s) == conn[s].live /\ Referenced(Machine, s)

\* The downstream socket emits readyRead().
DownStreamReadyRead(s, available) ==
    /\ conn[s].live
    /\ conn[s].down = ConnectedState
    /\ ~conn[s].downBlocked
    /\ IF conn[s].up = ConnectedState
       THEN Relayed(MaxSessions) + Len(available.bytes) <= MaxLog
       ELSE Lookups(MaxSessions) < MaxLookups
    /\ LET relayed == conn[s].up = ConnectedState
           m == downStreamReadyRead(Machine, s, available)
           seen == IF conn[s].first = NoData
                   THEN [m EXCEPT !.conn[s].first = available]
                   ELSE m
       IN Apply(IF relayed
                THEN [seen EXCEPT !.conn[s].fromDown = @ \o available.bytes]
                ELSE seen)

\* The upstream socket emits readyRead().
UpStreamReadyRead(s, available) ==
    /\ conn[s].live
    /\ conn[s].up = ConnectedState
    /\ ~conn[s].upBlocked
    /\ Relayed(MaxSessions) + Len(available) <= MaxLog
    /\ LET m == upStreamReadyRead(Machine, s, available)
       IN Apply([m EXCEPT !.conn[s].fromUp = @ \o available])

\* A host lookup of the session completes; its functor runs while the
\* context object (the session) exists.
LookupFinished(s, i, addresses) ==
    /\ conn[s].live
    /\ i \in 1..Len(conn[s].lookups)
    /\ LET request == conn[s].lookups[i]
           rest == SubSeq(conn[s].lookups, 1, i - 1)
                     \o SubSeq(conn[s].lookups, i + 1, Len(conn[s].lookups))
           m == [Machine EXCEPT !.conn[s].lookups = rest]
       IN Apply(lookedUp(m, s, request, request.port, addresses))

\* The upstream connection is established: connected() is emitted.
UpStreamConnected(s) ==
    /\ Delivers(s)
    /\ conn[s].up = ConnectingState
    /\ LET c == [conn[s] EXCEPT !.up = ConnectedState]
       IN Apply([Machine EXCEPT !.conn[s] = emitConnected(c, c.connected)])

\* The upstream connection attempt fails: only errorOccurred() is emitted,
\* whose functor logs.
UpStreamConnectFailed(s) ==
    /\ Delivers(s)
    /\ conn[s].up = ConnectingState
    /\ Apply([Machine EXCEPT !.conn[s].up = UnconnectedState])

\* The downstream peer closes: disconnected() is emitted.
DownStreamDisconnected(s) ==
    /\ conn[s].live
    /\ conn[s].down = ConnectedState
    /\ ~conn[s].downBlocked
    /\ Apply(terminate([Machine EXCEPT !.conn[s].down = UnconnectedState], s))

\* The upstream peer closes an established connection: disconnected().
UpStreamDisconnected(s) ==
    /\ conn[s].live
    /\ conn[s].up = ConnectedState
    /\ ~conn[s].upBlocked
    /\ Apply(terminate([Machine EXCEPT !.conn[s].up = UnconnectedState], s))

\* The deleteLater() of a session the registry dropped is delivered.
DeferredDelete(s) ==
    /\ conn[s].live
    /\ ~Referenced(Machine, s)
    /\ Apply([Machine EXCEPT !.conn[s] = NoConn])

Next ==
    \/ \E h \in Handles, adopted \in BOOLEAN : IncomingConnection(h, adopted)
    \/ \E s \in Slots, available \in Data : DownStreamReadyRead(s, available)
    \/ \E s \in Slots, available \in Chunks : UpStreamReadyRead(s, available)
    \/ \E s \in Slots, i \in 1..MaxLookups, addresses \in AddressLists :
          LookupFinished(s, i, addresses)
    \/ \E s \in Slots : UpStreamConnected(s)
    \/ \E s \in Slots : UpStreamConnectFailed(s)
    \/ \E s \in Slots : DownStreamDisconnected(s)
    \/ \E s \in Slots : UpStreamDisconnected(s)
    \/ \E s \in Slots : DeferredDelete(s)

Spec == Init /\ [][Next]_vars

\* ------------------------------------------------------------ vocabulary
\* The sessions that exist, and those among them on which terminate() ran.
Sessions == { s \in Slots : conn[s].live }

Terminated(s) == conn[s].live /\ conn[s].terminateCalls > 0

Registered == { h \in Handles : connections[h] # None }

\* The replies and payload bytes among what was written to downstream.
Replies(out) == SelectSeq(out, LAMBDA b : b = Response)

Payload(out) == SelectSeq(out, LAMBDA b : b # Response)

\* ------------------------------------------------------------------ claims

\* C1: in every reachable state the registry holds exactly the sessions that
\* were accepted and have not terminated, each under its own id: as many
\* entries as such sessions, a session is dropped by the registry exactly
\* when terminate() has run on it, and never more than once.
C1_RegistryIsTheLiveSessions ==
    /\ Cardinality(Registered) = Cardinality({ s \in Sessions : ~Terminated(s) })
    /\ \A h \in Registered :
          /\ connections[h] \in Sessions
          /\ ~Terminated(connections[h])
          /\ conn[connections[h]].id = h
    /\ \A s \in Sessions :
          /\ conn[s].removed = (IF Terminated(s) THEN 1 ELSE 0)
          /\ Terminated(s) <=> ~Referenced(Machine, s)

\* A terminated session not yet deleted next to a registered, running one.
C1_Witness ==
    \E s, r \in Sessions :
        /\ Terminated(s)
        /\ conn[s].removed = 1
        /\ ~Terminated(r)
        /\ connections[conn[r].id] = r

\* C2: however often terminate() runs on a session, the registry drops the
\* session at most once and terminated(id) reaches the acceptor at most once.
C2_TerminationIdempotent ==
    \A s \in Sessions :
        /\ conn[s].removed <= 1
        /\ conn[s].notified <= 1

\* terminate() ran twice on a session: one notification, one removal.
C2_Witness ==
    \E s \in Sessions :
        /\ conn[s].terminateCalls >= 2
        /\ conn[s].notified = 1
        /\ conn[s].removed = 1

\* C3: when the upstream connect attempt of a session fails, the session is
\* Terminated, its downstream socket closed and no reply written.
\* (The code connects terminate() to disconnected() only, which a failed
\* connect does not emit.)
C3_ConnectFailureTerminates ==
    [][\A s \in Slots :
          UpStreamConnectFailed(s) =>
              /\ Terminated(s)'
              /\ conn'[s].down = UnconnectedState
              /\ Replies(conn'[s].toDown) = <<>>]_vars

\* C4: a session whose first request parsed completely with a method other
\* than CONNECT, GET, PUT, POST, HEAD, DELETE is Terminated: both sockets
\* closed, dropped by the registry, no lookup started.
C4_UnsupportedMethodTerminates ==
    \A s \in Sessions :
        (/\ conn[s].first.result = ParsingCompleted
         /\ ~IsSupported(conn[s].first.method))
        => /\ Terminated(s)
           /\ conn[s].down = UnconnectedState
           /\ conn[s].up = UnconnectedState
           /\ ~Referenced(Machine, s)
           /\ conn[s].lookups = <<>>

\* The first read of a session is one the classifier rejects: it does not
\* parse, or it has a supported method and a target the pattern does not match.
Rejected(data) ==
    \/ data.result \in {ParsingIncomplete, ParsingError}
    \/ /\ data.result = ParsingCompleted
       /\ IsSupported(data.method)
       /\ ~hasMatch(data.uri)

C6_EmptyResolutionTerminates ==
    [][\A s \in Slots, i \in 1..MaxLookups :
          /\ LookupFinished(s, i, <<>>) =>
                /\ Terminated(s)'
                /\ conn'[s].down = UnconnectedState
                /\ conn'[s].attempts = <<>>
                /\ Replies(conn'[s].toDown) = <<>>
          /\ \A addresses \in AddressLists \ {<<>>} :
                LookupFinished(s, i, addresses) =>
                    conn'[s].attempts \in
                        { conn[s].attempts,
                          Append(conn[s].attempts,
                                 [address |-> Head(addresses),
                                  port |-> conn[s].lookups[i].port]) }]_vars

\* C7: a session's downstream has received the reply exactly if its first
\* request was a CONNECT and its upstream connection was established; no
\* reply is synthesized for the other methods; the reply precedes every
\* byte relayed from upstream.
C7_ReplyIffConnectEstablished ==
    \A s \in Sessions :
        /\ Replies(conn[s].toDown) # <<>> =>
              /\ conn[s].first.method = kConnect
              /\ conn[s].attempts # <<>>
        /\ (conn[s].first.method = kConnect /\ conn[s].up = ConnectedState) =>
              Replies(conn[s].toDown) # <<>>
        /\ conn[s].toDown = Replies(conn[s].toDown) \o Payload(conn[s].toDown)

\* C8: in each direction, what was written to the destination socket is what
\* was read from the source socket while relaying, byte for byte and in order.
C8_RelayPreservesBytes ==
    \A s \in Sessions :
        /\ conn[s].toUp = conn[s].fromDown
        /\ Payload(conn[s].toDown) = conn[s].fromUp

\* Two upstream reads, relayed in order after the reply.
C8_Witness ==
    \E s \in Sessions :
        /\ conn[s].fromUp = <<1, 2>>
        /\ conn[s].toDown = <<Response, 1, 2>>

\* C9: for a session whose upstream connection is established, a disconnect
\* of either socket terminates it in that event: both sockets closed, one
\* notification, dropped by the registry; and the registry never drops it
\* a second time.
C9_DisconnectWhileRelayingTerminates ==
    [][\A s \in Slots :
          /\ (\/ UpStreamDisconnected(s)
              \/ (conn[s].up = ConnectedState /\ DownStreamDisconnected(s)))
             => /\ Terminated(s)'
                /\ conn'[s].down = UnconnectedState
                /\ conn'[s].up = UnconnectedState
                /\ conn'[s].notified = 1
                /\ conn'[s].removed = 1
                /\ ~Referenced(Machine, s)'
          /\ (conn[s].removed = 1 /\ conn'[s].live) => conn'[s].removed = 1]_vars

\* A session that tunnelled (the reply was written) and was then terminated.
C9_Witness ==
    \E s \in Sessions :
        /\ Replies(conn[s].toDown) # <<>>
        /\ Terminated(s)
        /\ conn[s].down = UnconnectedState
        /\ conn[s].up = UnconnectedState
        /\ conn[s].removed = 1

\* C10: a lookup that completes for a session that is already Terminated is
\* discarded: it starts no connect, writes nothing and does not run
\* terminate() again.
C10_LateResolutionDiscarded ==
    [][\A s \in Slots, i \in 1..MaxLookups, addresses \in AddressLists :
          (Terminated(s) /\ LookupFinished(s, i, addresses)) =>
              /\ conn'[s].attempts = conn[s].attempts
              /\ conn'[s].up = conn[s].up
              /\ conn'[s].toDown = conn[s].toDown
              /\ conn'[s].toUp = conn[s].toUp
              /\ conn'[s].terminateCalls = conn[s].terminateCalls]_vars

\* C11: a session initiates at most one upstream connect attempt, whatever
\* downstream readable events and resolutions it sees.
C11_AtMostOneConnectAttempt ==
    \A s \in Sessions : Len(conn[s].attempts) <= 1

\* The lifecycle state of a session, read from its sockets and its lookups.
State(c) ==
    IF c.terminateCalls > 0 THEN "Terminated"
    ELSE IF c.up = ConnectedState THEN "Relaying"
    ELSE IF c.up = ConnectingState THEN "Connecting"
    ELSE IF c.lookups # <<>> THEN "Resolving"
    ELSE "AwaitingRequest"

\* The position of a lifecycle state in the order of the lifecycle.
Rank(state) ==
    CASE state = "AwaitingRequest" -> 0
      [] state = "Resolving" -> 1
      [] state = "Connecting" -> 2
      [] state = "Relaying" -> 3
      [] state = "Terminated" -> 4

\* C12: the state of a session only moves forward through AwaitingRequest,
\* Resolving, Connecting, Relaying, Terminated; the classifier runs only on
\* the first readable downstream event (a later one starts no resolution);
\* a Terminated session stays Terminated.
C12_LifecycleOnlyForward ==
    [][\A s \in Slots : (conn[s].live /\ conn'[s].live /\ conn'[s].id = conn[s].id) =>
          /\ Rank(State(conn'[s])) >= Rank(State(conn[s]))
          /\ conn[s].first # NoData =>
                Len(conn'[s].lookups) <= Len(conn[s].lookups)
          /\ Terminated(s) => State(conn'[s]) = "Terminated"]_vars

\* A signal of one of the sockets of session s reaches a slot of the session.
SocketEvent(s) ==
    \/ \E available \in Data : DownStreamReadyRead(s, available)
    \/ \E available \in Chunks : UpStreamReadyRead(s, available)
    \/ UpStreamConnected(s)
    \/ UpStreamConnectFailed(s)
    \/ DownStreamDisconnected(s)
    \/ UpStreamDisconnected(s)

\* C13: once a session is Terminated none of its socket events (downstream
\* readable, upstream readable, upstream connected, disconnected on either
\* socket) is processed, so none writes, looks up, connects or terminates.
C13_TerminatedIgnoresSocketEvents ==
    [][\A s \in Slots : Terminated(s) => ~SocketEvent(s)]_vars

\* A Terminated session whose sockets are closed and silenced, next to a
\* session that is still served.
C13_Witness ==
    \E s, r \in Sessions :
        /\ Terminated(s)
        /\ conn[s].downBlocked /\ conn[s].upBlocked
        /\ conn[s].down = UnconnectedState /\ conn[s].up = UnconnectedState
        /\ conn[s].lookups # <<>>
        /\ ~Terminated(r) /\ conn[r].up = ConnectedState

\* A target that is exactly host:port: one ':', a host without scheme, path
\* or query before it, a port of digits after it.
BareHostPort(uri) ==
    \E i \in 1..Len(uri) :
        /\ uri[i] = ":"
        /\ i < Len(uri)
        /\ \A j \in (i + 1)..Len(uri) : uri[j] \in Digits
        /\ \A j \in 1..(i - 1) : uri[j] \notin {":", "/", "?"}

\* C14: the classifier accepts a target only when it is exactly host:port;
\* a supported request whose target carries a scheme, path or query fails
\* the match, so its session terminates and starts no resolution.
C14_OnlyBareHostPortAccepted ==
    \A s \in Sessions :
        LET request == conn[s].first
        IN (/\ request.result = ParsingCompleted
            /\ IsSupported(request.method)
            /\ ~BareHostPort(request.uri)) =>
               /\ ~hasMatch(request.uri)
               /\ Terminated(s)
               /\ conn[s].lookups = <<>>
               /\ conn[s].attempts = <<>>

\* A request of one of the passthrough methods.
Passthrough(request) ==
    /\ request.result = ParsingCompleted
    /\ IsSupported(request.method)
    /\ request.method # kConnect

\* C15: in a passthrough session the bytes of the classified first read are
\* never written upstream: upstream receives bytes only in a downstream
\* readable event that comes after the first one and finds the upstream
\* connection established, and then exactly the bytes of that event.
C15_PassthroughRequestNotForwarded ==
    [][\A s \in Slots :
          (conn[s].live /\ conn'[s].live /\ Passthrough(conn'[s].first)) =>
              \/ conn'[s].toUp = conn[s].toUp
              \/ \E available \in Data :
                    /\ DownStreamReadyRead(s, available)
                    /\ conn[s].first # NoData
                    /\ conn[s].up = ConnectedState
                    /\ conn'[s].toUp = conn[s].toUp \o available.bytes]_vars

\* A GET session whose upstream connection is established and has received
\* the bytes of a later read, not those of the request.
C15_Witness ==
    \E s \in Sessions :
        /\ conn[s].first = Req(ParsingCompleted, kGet, HostPort)
        /\ conn[s].up = ConnectedState
        /\ conn[s].toUp = <<2>>

\* The statements of one run of terminate(), in the order of the source.
terminateStatements ==
    << "downStream.blockSignals", "upStream.blockSignals",
       "downStream.close", "upStream.close", "terminated" >>

\* n runs of terminate(), one after the other.
RECURSIVE Runs(_)
Runs(n) == IF n = 0 THEN <<>> ELSE Runs(n - 1) \o terminateStatements

\* C16: within one terminate() the signals of both sockets are blocked
\* first, then both sockets are closed, then terminated(id) is emitted with
\* the session's own id; closing the sockets never re-enters terminate(),
\* so the statements of two runs never interleave.
C16_TerminateBlocksClosesNotifies ==
    \A s \in Sessions :
        /\ conn[s].steps = Runs(conn[s].terminateCalls)
        /\ Terminated(s) =>
              /\ conn[s].notified = 1
              /\ connections[conn[s].id] # s

\* A session terminated once while it was relaying: terminate() closed a
\* socket that was still connected.
C16_Witness ==
    \E s \in Sessions :
        /\ conn[s].terminateCalls = 1
        /\ conn[s].fromDown # <<>>
        /\ conn[s].steps = terminateStatements
        /\ conn[s].notified = 1

\* C17: an incoming connection whose descriptor the socket cannot adopt
\* creates no session and leaves the registry and every existing session as
\* they were, so that later connections are accepted as before.
C17_FailedAdoptionChangesNothing ==
    [][\A handle \in Handles :
          IncomingConnection(handle, FALSE) =>
              /\ connections' = connections
              /\ conn' = conn
              /\ Sessions' = Sessions]_vars

\* A connection can come in, and fail to be adopted, while a session is
\* registered and resolving.
C17_Witness ==
    \E handle \in Handles, s \in Sessions :
        /\ ENABLED IncomingConnection(handle, FALSE)
        /\ connections[conn[s].id] = s
        /\ conn[s].lookups # <<>>

\* C18: onConnectionTerminate(id) changes at most the registry entry for
\* id: for an id that is not (or no longer) registered it changes nothing,
\* and it always leaves the registry entries, states and sockets of all
\* other sessions as they were; a step in which one session terminates
\* leaves every other session and its registry entry untouched.
C18_TerminationTouchesOnlyItsEntry ==
    /\ [](\A id \in Handles :
            LET m == onConnectionTerminate(Machine, id)
            IN /\ connections[id] = None => m = Machine
               /\ \A h \in Handles \ {id} : m.connections[h] = connections[h]
               /\ \A r \in Slots \ {connections[id]} : m.conn[r] = conn[r])
    /\ [][\A s \in Slots :
            (conn[s].live /\ conn'[s].terminateCalls > conn[s].terminateCalls) =>
                /\ \A r \in Slots \ {s} : conn'[r] = conn[r]
                /\ \A h \in Handles :
                      connections[h] # s => connections'[h] = connections[h]]_vars

\* One session was terminated and dropped while another, registered one
\* goes on relaying.
C18_Witness ==
    \E s, r \in Sessions :
        /\ Terminated(s)
        /\ conn[s].removed = 1
        /\ connections[conn[r].id] = r
        /\ conn[r].up = ConnectedState
        /\ conn[r].fromUp # <<>>

\* C19: with ids taken from the socket descriptor, which the operating
\* system hands out again once the socket is closed, there is exactly one
\* registered session per open downstream socket: the session of every open
\* downstream socket is registered under its descriptor, a registered id is
\* never one an incoming connection can carry, and the notification of an
\* earlier session with the same id does not remove a later one.
C19_OneSessionPerOpenSocket ==
    /\ \A s \in Sessions :
          conn[s].down = ConnectedState => connections[conn[s].id] = s
    /\ \A h \in Registered :
          /\ ~FreeHandle(h)
          /\ conn[connections[h]].down = ConnectedState
          /\ conn[connections[h]].id = h

\* A later session registered under the id of an earlier session that ran
\* terminate() a second time after the id was handed out again.
C19_Witness ==
    \E s, r \in Sessions :
        /\ s # r
        /\ conn[s].id = conn[r].id
        /\ conn[s].terminateCalls = 2
        /\ connections[conn[r].id] = r
        /\ conn[r].down = ConnectedState

\* C20: a CONNECT session writes the success reply to downstream at most
\* once, however many downstream readable events and resolution completions
\* come before the upstream connection is established.
C20_AtMostOneReply ==
    \A s \in Sessions :
        conn[s].first.method = kConnect => Len(Replies(conn[s].toDown)) <= 1

====
